---- MODULE Spec2Model ----
(***************************************************************************)
(* stress-lb (src/src/main.rs): a pool of spin workers pinned to cores     *)
(* 1..N-1, one carrier thread pinned to core 0 that consumes SIGALRM       *)
(* notifications of a thread-directed POSIX timer, and the orchestrator    *)
(* (main) that starts them, sleeps, raises the quit flag and joins.        *)
(***************************************************************************)
EXTENDS Integers, Sequences, FiniteSets, TLC

\* ---- bounds of the model ------------------------------------------------
MaxCores == 3
MaxThreadsPerCore == 2
MaxWorkers == 2
MaxInterval == 1
MaxIncr == 1
SpawnMaxCores == 4
SpawnMaxThreadsPerCore == 3

\* ---- derived sizes and names ---------------------------------------------
MaxThreads ==
  IF MaxWorkers > (SpawnMaxCores - 1) * SpawnMaxThreadsPerCore
  THEN MaxWorkers
  ELSE (SpawnMaxCores - 1) * SpawnMaxThreadsPerCore
MainT == 0
CarrierT == MaxThreads + 1
Workers == 1..MaxThreads
Threads == 0..(MaxThreads + 1)

NoTid == 0
NullTimer == 0
Running == -1
ExitOk == 0
ExitPanic == 101
ExitKilled == 142
NoError == 0
EAGAIN == 11
EINVAL == 22
\* errno values timer_create and timer_settime fail with
OsErrors == {EAGAIN, EINVAL}

VARIABLES
  core_num,          \* get_core_num()
  threads_per_core,  \* args.threads_per_core
  interval,          \* timer period, 0 when the parsed interval is zero
  hasDuration,       \* args.duration is Some(_)
  pcMain,            \* position of the orchestrator in main / TimerThread::new
  threads,           \* number of JoinHandles collected by run_worker_threads
  joinIdx,           \* index of the worker the join loop is at
  wpc,               \* position of every spin worker
  dummy,             \* private counter of every spin worker
  cpc,               \* position of the carrier thread
  tid,               \* OS thread identity of every thread, NoTid before spawn
  chan,              \* contents of the mpsc channel (tx -> rx)
  thread_id,         \* value bound by rx.recv() in TimerThread::new
  timerid,           \* TimerId.0, NullTimer when null
  osTimer,           \* the kernel's timer object
  timer,             \* TimerThread.timer: "None", "Some", "Dropped"
  sigInstalled,      \* the SIGALRM handler of signal_hook is registered
  pending,           \* signal_hook's pending flag for SIGALRM
  quit,              \* the shared AtomicBool
  exitCode,          \* Running, or the exit status of the process
  joined,            \* threads whose join() has returned
  joinErr,           \* threads whose join() returned Err
  \* ---- history (observations, never read by the program) ----
  creates,           \* successful timer_create calls
  deletes,           \* timer_delete calls
  drops,             \* runs of Drop for TimerId
  errReturned,       \* Timer::new has returned Err to its caller
  delivered,         \* threads the kernel has interrupted with a timer expiry
  consumers,         \* threads that consumed a notification from Signals
  quitWrites,        \* sequence of <<writer, old, new>> stores to quit
  slept,             \* thread::sleep(dur) has returned
  wakesAfterQuit,    \* notifications the carrier consumed after quit was set
  errCode,           \* errno carried by the Err of Timer::new, NoError if none
  pinned,            \* threads whose set_thread_affinity succeeded
  fifo               \* set_self_policy(Policy::Fifo, ..) of the carrier succeeded

vars == << core_num, threads_per_core, interval, hasDuration, pcMain, threads,
           joinIdx, wpc, dummy, cpc, tid, chan, thread_id, timerid, osTimer,
           timer, sigInstalled, pending, quit, exitCode, joined, joinErr,
           creates, deletes, drops, errReturned, delivered, consumers,
           quitWrites, slept, wakesAfterQuit, errCode, pinned, fifo >>

cfgVars == << core_num, threads_per_core, interval, hasDuration >>
mainVars == << pcMain, threads, joinIdx >>
histTimer == << creates, deletes, drops, errReturned >>
histSig == << delivered, consumers, wakesAfterQuit >>
auxVars == << errCode, pinned, fifo >>

Alive == exitCode = Running
Terminated(pc) == pc \in {"returned", "panicked"}

\* variant: no core is reserved for the carrier thread
num_threads_AllCores == core_num * threads_per_core

\* (get_core_num() - 1) * threads_per_core; the values of the model stay far
\* below the width of usize
num_threads == (core_num - 1) * threads_per_core

\* variant: libc::getpid() in place of gettid(), the identity of the main thread
GetTid_Pid(self) == tid[MainT]

\* libc::gettid() of the calling thread
GetTid(self) == tid[self]

\* threads running at this moment
Live(t) ==
  IF t = MainT THEN TRUE
  ELSE IF t = CarrierT THEN cpc \notin {"unspawned", "returned", "panicked"}
  ELSE wpc[t] \notin {"unspawned", "returned", "panicked"}

\* variant: SIGEV_SIGNAL, a process-directed signal any thread may take
NotifyTargets_Process(target) == { t \in Threads : Live(t) }

\* SIGEV_THREAD_ID with sigev_notify_thread_id = target: the threads the kernel
\* may interrupt with the expiry signal
NotifyTargets(target) == { t \in Threads : Live(t) /\ tid[t] = target }

\* variant: it_interval left zeroed, a one-shot timer
ItInterval_OneShot(d) == 0

\* it_interval = dur: the timer re-arms itself after each expiry
ItInterval(d) == d

\* variant: a TimerId without the Drop implementation
TimerIdDrop_Forget(h) == 0

\* Drop for TimerId: the number of timer_delete calls it makes
TimerIdDrop(h) == IF h # NullTimer THEN 1 ELSE 0

\* variant: the result of join() is discarded
JoinResult_Ignore(pc) == "Ok"

\* JoinHandle::join(): Err when the thread panicked
JoinResult(pc) == IF pc = "panicked" THEN "Err" ELSE "Ok"

\* the state main starts from, whatever the arguments
InitState ==
  /\ pcMain = "spawn_workers"
  /\ threads = 0
  /\ joinIdx = 1
  /\ wpc = [w \in Workers |-> "unspawned"]
  /\ dummy = [w \in Workers |-> 0]
  /\ cpc = "unspawned"
  /\ tid = [t \in Threads |-> IF t = MainT THEN 1 ELSE NoTid]
  /\ chan = << >>
  /\ thread_id = NoTid
  /\ timerid = NullTimer
  /\ osTimer = [state |-> "none", target |-> NoTid]
  /\ timer = "None"
  /\ sigInstalled = FALSE
  /\ pending = FALSE
  /\ quit = FALSE
  /\ exitCode = Running
  /\ joined = {}
  /\ joinErr = {}
  /\ creates = 0
  /\ deletes = 0
  /\ drops = 0
  /\ errReturned = FALSE
  /\ delivered = {}
  /\ consumers = {}
  /\ quitWrites = << >>
  /\ slept = FALSE
  /\ wakesAfterQuit = 0
  /\ errCode = NoError
  /\ pinned = {}
  /\ fifo = FALSE

Init ==
  /\ core_num \in 1..MaxCores
  /\ threads_per_core \in 0..MaxThreadsPerCore
  /\ num_threads <= MaxWorkers
  /\ interval \in 0..MaxInterval
  /\ hasDuration \in BOOLEAN
  /\ InitState

\* start of a run on a larger machine, followed up to the spawn of the carrier
SpawnInit ==
  /\ core_num \in 1..SpawnMaxCores
  /\ threads_per_core \in 0..SpawnMaxThreadsPerCore
  /\ interval \in 0..MaxInterval
  /\ hasDuration \in BOOLEAN
  /\ InitState


\* ---- the orchestrator: main and TimerThread::new ---------------------------

\* the OS gives a new thread an identity no other thread of the process has
SpawnTid(t) == t + 1

\* effect of dropping the TimerId that holds timerid
DropTimerId ==
  /\ drops' = drops + 1
  /\ deletes' = deletes + TimerIdDrop(timerid)
  /\ osTimer' = IF TimerIdDrop(timerid) > 0
                THEN [osTimer EXCEPT !.state = "deleted"]
                ELSE osTimer

\* run_worker_threads: one thread::spawn of the map over 0..num_threads
MainSpawnWorker ==
  /\ Alive /\ pcMain = "spawn_workers" /\ threads < num_threads
  /\ threads' = threads + 1
  /\ wpc' = [wpc EXCEPT ![threads + 1] = "affinity"]
  /\ tid' = [tid EXCEPT ![threads + 1] = SpawnTid(threads + 1)]
  /\ UNCHANGED << cfgVars, auxVars, pcMain, joinIdx, dummy, cpc, chan, thread_id,
                  timerid, osTimer, timer, sigInstalled, pending, quit,
                  exitCode, joined, joinErr, histTimer, histSig, quitWrites,
                  slept >>

\* run_worker_threads returns the collected handles
MainWorkersSpawned ==
  /\ Alive /\ pcMain = "spawn_workers" /\ threads = num_threads
  /\ pcMain' = "signals_new"
  /\ UNCHANGED << cfgVars, auxVars, threads, joinIdx, wpc, dummy, cpc, tid, chan,
                  thread_id, timerid, osTimer, timer, sigInstalled, pending,
                  quit, exitCode, joined, joinErr, histTimer, histSig,
                  quitWrites, slept >>

\* variant: the result of Signals::new is not looked at
MainSignalsNew_Unchecked ==
  /\ Alive /\ pcMain = "signals_new"
  /\ \E ok \in BOOLEAN :
       /\ sigInstalled' = ok
       /\ pcMain' = "spawn_carrier"
  /\ UNCHANGED << cfgVars, auxVars, threads, joinIdx, wpc, dummy, cpc, tid, chan,
                  thread_id, timerid, osTimer, timer, pending, quit, exitCode,
                  joined, joinErr, histTimer, histSig, quitWrites, slept >>

\* Signals::new(&[SIGALRM])?  -- an Err is unwrapped by main
MainSignalsNew ==
  /\ Alive /\ pcMain = "signals_new"
  /\ \E ok \in BOOLEAN :
       /\ sigInstalled' = ok
       /\ pcMain' = IF ok THEN "spawn_carrier" ELSE "panic"
  /\ UNCHANGED << cfgVars, auxVars, threads, joinIdx, wpc, dummy, cpc, tid, chan,
                  thread_id, timerid, osTimer, timer, pending, quit, exitCode,
                  joined, joinErr, histTimer, histSig, quitWrites, slept >>

\* mpsc::channel() and thread::spawn of the carrier closure
MainSpawnCarrier ==
  /\ Alive /\ pcMain = "spawn_carrier"
  /\ cpc' = "send"
  /\ tid' = [tid EXCEPT ![CarrierT] = SpawnTid(CarrierT)]
  /\ pcMain' = "recv"
  /\ UNCHANGED << cfgVars, auxVars, threads, joinIdx, wpc, dummy, chan, thread_id,
                  timerid, osTimer, timer, sigInstalled, pending, quit,
                  exitCode, joined, joinErr, histTimer, histSig, quitWrites,
                  slept >>

\* rx.recv()?  -- blocks until a value is there or the sender is gone
MainRecv ==
  /\ Alive /\ pcMain = "recv"
  /\ chan # << >> \/ Terminated(cpc)
  /\ IF chan # << >>
     THEN /\ thread_id' = Head(chan)
          /\ chan' = Tail(chan)
          /\ pcMain' = "timer_create"
     ELSE /\ pcMain' = "panic"
          /\ UNCHANGED << thread_id, chan >>
  /\ UNCHANGED << cfgVars, auxVars, threads, joinIdx, wpc, dummy, cpc, tid, timerid,
                  osTimer, timer, sigInstalled, pending, quit, exitCode,
                  joined, joinErr, histTimer, histSig, quitWrites, slept >>

\* Timer::new up to the first return: timer_create with SIGEV_THREAD_ID.
\* The kernel refuses a target that is not a live thread of the process.
MainTimerCreate ==
  /\ Alive /\ pcMain = "timer_create"
  /\ \E ok \in BOOLEAN, e \in OsErrors :
       /\ ok => NotifyTargets(thread_id) # {} /\ e = EINVAL
       /\ IF ok
          THEN /\ timerid' = 1
               /\ osTimer' = [state |-> "created", target |-> thread_id]
               /\ creates' = creates + 1
               /\ pcMain' = "timer_settime"
               /\ UNCHANGED << drops, deletes, errReturned, errCode >>
          ELSE /\ DropTimerId
               /\ errReturned' = TRUE
               /\ errCode' = e
               /\ pcMain' = "panic"
               /\ UNCHANGED << timerid, creates >>
  /\ UNCHANGED << cfgVars, pinned, fifo, threads, joinIdx, wpc, dummy, cpc, tid, chan,
                  thread_id, timer, sigInstalled, pending, quit, exitCode,
                  joined, joinErr, histSig, quitWrites, slept >>

\* variant: the Err of Timer::new is discarded and main goes on to the sleep
MainTimerSettime_ErrIgnored ==
  /\ Alive /\ pcMain = "timer_settime"
  /\ \E ok \in BOOLEAN, e \in OsErrors :
       /\ ok => e = EINVAL
       /\ IF ok
          THEN /\ osTimer' = [osTimer EXCEPT
                                !.state = IF interval > 0 THEN "armed" ELSE "created"]
               /\ timer' = "Some"
               /\ pcMain' = "sleep"
               /\ UNCHANGED << drops, deletes, errReturned, errCode >>
          ELSE /\ DropTimerId
               /\ errReturned' = TRUE
               /\ errCode' = e
               /\ pcMain' = "sleep"
               /\ UNCHANGED timer
  /\ UNCHANGED << cfgVars, pinned, fifo, threads, joinIdx, wpc, dummy, cpc, tid, chan,
                  thread_id, timerid, sigInstalled, pending, quit, exitCode,
                  joined, joinErr, creates, histSig, quitWrites, slept >>

\* Timer::new from timer_settime to its return; a zero it_value leaves the
\* timer disarmed
MainTimerSettime ==
  /\ Alive /\ pcMain = "timer_settime"
  /\ \E ok \in BOOLEAN, e \in OsErrors :
       /\ ok => e = EINVAL
       /\ IF ok
          THEN /\ osTimer' = [osTimer EXCEPT
                                !.state = IF interval > 0 THEN "armed" ELSE "created"]
               /\ timer' = "Some"
               /\ pcMain' = "sleep"
               /\ UNCHANGED << drops, deletes, errReturned, errCode >>
          ELSE /\ DropTimerId
               /\ errReturned' = TRUE
               /\ errCode' = e
               /\ pcMain' = "panic"
               /\ UNCHANGED timer
  /\ UNCHANGED << cfgVars, pinned, fifo, threads, joinIdx, wpc, dummy, cpc, tid, chan,
                  thread_id, timerid, sigInstalled, pending, quit, exitCode,
                  joined, joinErr, creates, histSig, quitWrites, slept >>

\* thread::sleep(dur): returns only when a duration was given (Duration::MAX
\* otherwise)
MainSleep ==
  /\ Alive /\ pcMain = "sleep" /\ hasDuration
  /\ slept' = TRUE
  /\ pcMain' = "store"
  /\ UNCHANGED << cfgVars, auxVars, threads, joinIdx, wpc, dummy, cpc, tid, chan,
                  thread_id, timerid, osTimer, timer, sigInstalled, pending,
                  quit, exitCode, joined, joinErr, histTimer, histSig,
                  quitWrites >>

\* variant: the store is followed by the worker joins, the carrier is skipped
MainStore_SkipCarrier ==
  /\ Alive /\ pcMain = "store"
  /\ quit' = TRUE
  /\ quitWrites' = Append(quitWrites, << MainT, quit, TRUE >>)
  /\ pcMain' = "join_workers"
  /\ UNCHANGED << cfgVars, auxVars, threads, joinIdx, wpc, dummy, cpc, tid, chan,
                  thread_id, timerid, osTimer, timer, sigInstalled, pending,
                  exitCode, joined, joinErr, histTimer, histSig, slept >>

\* variant: the timer is released right after the store, before the carrier is joined
MainStore_DropTimer ==
  /\ Alive /\ pcMain = "store"
  /\ quit' = TRUE
  /\ quitWrites' = Append(quitWrites, << MainT, quit, TRUE >>)
  /\ pcMain' = "join_carrier"
  /\ DropTimerId /\ timer' = "Dropped"
  /\ UNCHANGED << cfgVars, auxVars, threads, joinIdx, wpc, dummy, cpc, tid, chan,
                  thread_id, timerid, sigInstalled, pending,
                  exitCode, joined, joinErr, creates, errReturned, histSig,
                  slept >>

\* quit.store(true, Ordering::Release)
MainStore ==
  /\ Alive /\ pcMain = "store"
  /\ quit' = TRUE
  /\ quitWrites' = Append(quitWrites, << MainT, quit, TRUE >>)
  /\ pcMain' = "join_carrier"
  /\ UNCHANGED << cfgVars, auxVars, threads, joinIdx, wpc, dummy, cpc, tid, chan,
                  thread_id, timerid, osTimer, timer, sigInstalled, pending,
                  exitCode, joined, joinErr, histTimer, histSig, slept >>

\* timer.join().unwrap()
MainJoinCarrier ==
  /\ Alive /\ pcMain = "join_carrier"
  /\ Terminated(cpc)
  /\ joined' = joined \cup {CarrierT}
  /\ joinErr' = IF JoinResult(cpc) = "Err" THEN joinErr \cup {CarrierT} ELSE joinErr
  /\ pcMain' = IF JoinResult(cpc) = "Err" THEN "panic" ELSE "join_workers"
  /\ joinIdx' = 1
  /\ UNCHANGED << cfgVars, auxVars, threads, wpc, dummy, cpc, tid, chan, thread_id,
                  timerid, osTimer, timer, sigInstalled, pending, quit,
                  exitCode, histTimer, histSig, quitWrites, slept >>

\* variant: the loop steps over every other handle
MainJoinWorker_Skip ==
  /\ Alive /\ pcMain = "join_workers" /\ joinIdx <= threads
  /\ Terminated(wpc[joinIdx])
  /\ joined' = joined \cup {joinIdx}
  /\ joinErr' = IF JoinResult(wpc[joinIdx]) = "Err"
                THEN joinErr \cup {joinIdx} ELSE joinErr
  /\ pcMain' = IF JoinResult(wpc[joinIdx]) = "Err" THEN "panic" ELSE "join_workers"
  /\ joinIdx' = joinIdx + 2
  /\ UNCHANGED << cfgVars, auxVars, threads, wpc, dummy, cpc, tid, chan, thread_id,
                  timerid, osTimer, timer, sigInstalled, pending, quit,
                  exitCode, histTimer, histSig, quitWrites, slept >>

\* one iteration of: for t in threads { t.join().unwrap(); }
MainJoinWorker ==
  /\ Alive /\ pcMain = "join_workers" /\ joinIdx <= threads
  /\ Terminated(wpc[joinIdx])
  /\ joined' = joined \cup {joinIdx}
  /\ joinErr' = IF JoinResult(wpc[joinIdx]) = "Err"
                THEN joinErr \cup {joinIdx} ELSE joinErr
  /\ pcMain' = IF JoinResult(wpc[joinIdx]) = "Err" THEN "panic" ELSE "join_workers"
  /\ joinIdx' = joinIdx + 1
  /\ UNCHANGED << cfgVars, auxVars, threads, wpc, dummy, cpc, tid, chan, thread_id,
                  timerid, osTimer, timer, sigInstalled, pending, quit,
                  exitCode, histTimer, histSig, quitWrites, slept >>

\* variant: main ends without running the destructor of the TimerThread
MainReturn_Forget ==
  /\ Alive /\ pcMain = "join_workers" /\ joinIdx > threads
  /\ exitCode' = ExitOk
  /\ pcMain' = "done"
  /\ UNCHANGED << cfgVars, auxVars, threads, joinIdx, wpc, dummy, cpc, tid, chan,
                  thread_id, timerid, osTimer, timer, sigInstalled, pending,
                  quit, joined, joinErr, histTimer, histSig, quitWrites,
                  slept >>

\* the closing brace of main: the locals are dropped, the process exits with 0
MainReturn ==
  /\ Alive /\ pcMain = "join_workers" /\ joinIdx > threads
  /\ DropTimerId
  /\ timer' = "Dropped"
  /\ exitCode' = ExitOk
  /\ pcMain' = "done"
  /\ UNCHANGED << cfgVars, auxVars, threads, joinIdx, wpc, dummy, cpc, tid, chan,
                  thread_id, timerid, sigInstalled, pending, quit, joined,
                  joinErr, creates, errReturned, histSig, quitWrites, slept >>

\* variant: the unwinding releases the timer handle whether or not main owns a TimerThread
MainPanic_DropAlways ==
  /\ Alive /\ pcMain = "panic"
  /\ DropTimerId /\ timer' = "Dropped"
  /\ exitCode' = ExitPanic
  /\ pcMain' = "done"
  /\ UNCHANGED << cfgVars, auxVars, threads, joinIdx, wpc, dummy, cpc, tid, chan,
                  thread_id, timerid, sigInstalled, pending, quit, joined,
                  joinErr, creates, errReturned, histSig, quitWrites, slept >>

\* an unwrap() of main failed: the stack is unwound, which drops the
\* TimerThread when main owns one, and the process exits with 101
MainPanic ==
  /\ Alive /\ pcMain = "panic"
  /\ IF timer = "Some"
     THEN DropTimerId /\ timer' = "Dropped"
     ELSE UNCHANGED << drops, deletes, osTimer, timer >>
  /\ exitCode' = ExitPanic
  /\ pcMain' = "done"
  /\ UNCHANGED << cfgVars, auxVars, threads, joinIdx, wpc, dummy, cpc, tid, chan,
                  thread_id, timerid, sigInstalled, pending, quit, joined,
                  joinErr, creates, errReturned, histSig, quitWrites, slept >>

\* ---- the carrier thread: the closure spawned by TimerThread::new ---------

\* variant: the affinity is bound before the identity is sent, a failure drops tx unsent
CarrierSend_PinFirst ==
  /\ Alive /\ cpc = "send"
  /\ \E ok \in BOOLEAN :
       /\ chan' = IF ok THEN Append(chan, GetTid(CarrierT)) ELSE chan
       /\ cpc' = IF ok THEN "affinity" ELSE "panicked"
  /\ UNCHANGED << cfgVars, auxVars, mainVars, wpc, dummy, tid, thread_id, timerid,
                  osTimer, timer, sigInstalled, pending, quit, exitCode,
                  joined, joinErr, histTimer, histSig, quitWrites, slept >>

\* tx.send(unsafe { libc::gettid() }).unwrap()
CarrierSend ==
  /\ Alive /\ cpc = "send"
  /\ chan' = Append(chan, GetTid(CarrierT))
  /\ cpc' = "affinity"
  /\ UNCHANGED << cfgVars, auxVars, mainVars, wpc, dummy, tid, thread_id, timerid,
                  osTimer, timer, sigInstalled, pending, quit, exitCode,
                  joined, joinErr, histTimer, histSig, quitWrites, slept >>

\* set_thread_affinity(&[0]).unwrap()
CarrierAffinity ==
  /\ Alive /\ cpc = "affinity"
  /\ \E ok \in BOOLEAN :
       /\ cpc' = IF ok THEN "policy" ELSE "panicked"
       /\ pinned' = IF ok THEN pinned \cup {CarrierT} ELSE pinned
  /\ UNCHANGED << cfgVars, errCode, fifo, mainVars, wpc, dummy, tid, chan, thread_id, timerid,
                  osTimer, timer, sigInstalled, pending, quit, exitCode,
                  joined, joinErr, histTimer, histSig, quitWrites, slept >>

\* set_self_policy(Policy::Fifo, priority).unwrap()
CarrierPolicy ==
  /\ Alive /\ cpc = "policy"
  /\ \E ok \in BOOLEAN :
       /\ cpc' = IF ok THEN "wait" ELSE "panicked"
       /\ fifo' = ok
  /\ UNCHANGED << cfgVars, errCode, pinned, mainVars, wpc, dummy, tid, chan, thread_id, timerid,
                  osTimer, timer, sigInstalled, pending, quit, exitCode,
                  joined, joinErr, histTimer, histSig, quitWrites, slept >>

\* variant: signals.pending() in place of forever(), a poll that does not block
CarrierWait_Poll ==
  /\ Alive /\ cpc = "wait"
  /\ pending' = FALSE
  /\ cpc' = "load"
  /\ consumers' = IF pending THEN consumers \cup {CarrierT} ELSE consumers
  /\ wakesAfterQuit' = IF quit THEN wakesAfterQuit + 1 ELSE wakesAfterQuit
  /\ UNCHANGED << cfgVars, auxVars, mainVars, wpc, dummy, tid, chan, thread_id, timerid,
                  osTimer, timer, sigInstalled, quit, exitCode, joined,
                  joinErr, histTimer, delivered, quitWrites, slept >>

\* signals.forever(): blocks until SIGALRM is pending, then yields it
CarrierWait ==
  /\ Alive /\ cpc = "wait"
  /\ pending
  /\ pending' = FALSE
  /\ cpc' = "load"
  /\ consumers' = consumers \cup {CarrierT}
  /\ wakesAfterQuit' = IF quit THEN wakesAfterQuit + 1 ELSE wakesAfterQuit
  /\ UNCHANGED << cfgVars, auxVars, mainVars, wpc, dummy, tid, chan, thread_id, timerid,
                  osTimer, timer, sigInstalled, quit, exitCode, joined,
                  joinErr, histTimer, delivered, quitWrites, slept >>

\* variant: quit.swap(false, ..) in place of the load
CarrierLoad_Swap ==
  /\ Alive /\ cpc = "load"
  /\ cpc' = IF quit THEN "returned" ELSE "wait"
  /\ quit' = FALSE
  /\ quitWrites' = Append(quitWrites, << CarrierT, quit, FALSE >>)
  /\ UNCHANGED << cfgVars, auxVars, mainVars, wpc, dummy, tid, chan, thread_id, timerid,
                  osTimer, timer, sigInstalled, pending, exitCode, joined,
                  joinErr, histTimer, histSig, slept >>

\* if quit.load(Ordering::Acquire) { return; }
CarrierLoad ==
  /\ Alive /\ cpc = "load"
  /\ cpc' = IF quit THEN "returned" ELSE "wait"
  /\ UNCHANGED << cfgVars, auxVars, mainVars, wpc, dummy, tid, chan, thread_id, timerid,
                  osTimer, timer, sigInstalled, pending, quit, exitCode,
                  joined, joinErr, histTimer, histSig, quitWrites, slept >>

\* ---- a spin worker: the closure spawned by run_worker_threads ------------

\* variant: the result of set_thread_affinity is discarded
WorkerAffinity_Ignored(w) ==
  /\ Alive /\ wpc[w] = "affinity"
  /\ \E ok \in BOOLEAN :
       /\ wpc' = [wpc EXCEPT ![w] = "check"]
       /\ pinned' = IF ok THEN pinned \cup {w} ELSE pinned
  /\ UNCHANGED << cfgVars, errCode, fifo, mainVars, dummy, cpc, tid, chan, thread_id, timerid,
                  osTimer, timer, sigInstalled, pending, quit, exitCode,
                  joined, joinErr, histTimer, histSig, quitWrites, slept >>

\* set_thread_affinity(&(1..get_core_num())).unwrap()
WorkerAffinity(w) ==
  /\ Alive /\ wpc[w] = "affinity"
  /\ \E ok \in BOOLEAN :
       /\ wpc' = [wpc EXCEPT ![w] = IF ok THEN "check" ELSE "panicked"]
       /\ pinned' = IF ok THEN pinned \cup {w} ELSE pinned
  /\ UNCHANGED << cfgVars, errCode, fifo, mainVars, dummy, cpc, tid, chan, thread_id, timerid,
                  osTimer, timer, sigInstalled, pending, quit, exitCode,
                  joined, joinErr, histTimer, histSig, quitWrites, slept >>

\* while !myquit.load(Ordering::Acquire)
WorkerLoad(w) ==
  /\ Alive /\ wpc[w] = "check"
  /\ wpc' = [wpc EXCEPT ![w] = IF quit THEN "returned" ELSE "incr"]
  /\ UNCHANGED << cfgVars, auxVars, mainVars, dummy, cpc, tid, chan, thread_id, timerid,
                  osTimer, timer, sigInstalled, pending, quit, exitCode,
                  joined, joinErr, histTimer, histSig, quitWrites, slept >>

\* variant: the loop body is optimised away, the counter is never written
WorkerIncr_Elided(w) ==
  /\ Alive /\ wpc[w] = "incr"
  /\ dummy' = dummy
  /\ wpc' = [wpc EXCEPT ![w] = "check"]
  /\ UNCHANGED << cfgVars, auxVars, mainVars, cpc, tid, chan, thread_id, timerid,
                  osTimer, timer, sigInstalled, pending, quit, exitCode,
                  joined, joinErr, histTimer, histSig, quitWrites, slept >>

\* volatile_dummy.write(volatile_dummy.read().wrapping_add(1)); the counter is
\* followed up to MaxIncr
WorkerIncr(w) ==
  /\ Alive /\ wpc[w] = "incr"
  /\ dummy' = [dummy EXCEPT ![w] = IF dummy[w] < MaxIncr
                                   THEN dummy[w] + 1 ELSE dummy[w]]
  /\ wpc' = [wpc EXCEPT ![w] = "check"]
  /\ UNCHANGED << cfgVars, auxVars, mainVars, cpc, tid, chan, thread_id, timerid,
                  osTimer, timer, sigInstalled, pending, quit, exitCode,
                  joined, joinErr, histTimer, histSig, quitWrites, slept >>

\* ---- the kernel's timer ----------------------------------------------------

\* one expiry of the armed timer: the signal interrupts a target thread; the
\* registered handler marks SIGALRM pending for the Signals iterator, without
\* a handler the default action of SIGALRM ends the process
TimerFire ==
  /\ Alive /\ osTimer.state = "armed"
  /\ \E t \in NotifyTargets(osTimer.target) :
       /\ delivered' = delivered \cup {t}
       /\ IF sigInstalled
          THEN pending' = TRUE /\ UNCHANGED exitCode
          ELSE exitCode' = ExitKilled /\ UNCHANGED pending
  /\ osTimer' = [osTimer EXCEPT
                   !.state = IF ItInterval(interval) > 0 THEN "armed" ELSE "created"]
  /\ UNCHANGED << cfgVars, auxVars, mainVars, wpc, dummy, cpc, tid, chan, thread_id,
                  timerid, timer, sigInstalled, quit, joined, joinErr,
                  histTimer, consumers, wakesAfterQuit, quitWrites, slept >>

\* ---- the system ------------------------------------------------------------

MainNext ==
  \/ MainSpawnWorker
  \/ MainWorkersSpawned
  \/ MainSignalsNew
  \/ MainSpawnCarrier
  \/ MainRecv
  \/ MainTimerCreate
  \/ MainTimerSettime
  \/ MainSleep
  \/ MainStore
  \/ MainJoinCarrier
  \/ MainJoinWorker
  \/ MainReturn
  \/ MainPanic

CarrierNext ==
  \/ CarrierSend
  \/ CarrierAffinity
  \/ CarrierPolicy
  \/ CarrierWait
  \/ CarrierLoad

WorkerNext(w) ==
  \/ WorkerAffinity(w)
  \/ WorkerLoad(w)
  \/ WorkerIncr(w)

Next ==
  \/ MainNext
  \/ CarrierNext
  \/ \E w \in Workers : WorkerNext(w)
  \/ TimerFire

Spec == Init /\ [][Next]_vars

\* every thread is scheduled again and again, and an armed timer keeps
\* expiring
FairSpec ==
  /\ Spec
  /\ WF_vars(MainNext)
  /\ WF_vars(CarrierNext)
  /\ \A w \in 1..MaxWorkers : WF_vars(WorkerNext(w))
  /\ WF_vars(TimerFire)

\* start-up of the orchestrator alone: run_worker_threads and the first half
\* of TimerThread::new
SpawnNext ==
  \/ MainSpawnWorker
  \/ MainWorkersSpawned
  \/ MainSignalsNew
  \/ MainSpawnCarrier

SpawnSpec == SpawnInit /\ [][SpawnNext]_vars

\* ---- properties ------------------------------------------------------------

AnyPanicked == cpc = "panicked" \/ \E w \in Workers : wpc[w] = "panicked"
TimerNewEntered == pcMain \in {"timer_create", "timer_settime"} \/ creates > 0 \/ drops > 0
TimerNewAttempted == creates > 0 \/ errReturned
AllWorkersJoined == \A w \in 1..num_threads : w \in joined

\* C1: Timer::new is entered only after the carrier thread has sent its
\* identity and main has received it; the identity handed to Timer::new, and
\* the one the OS timer is bound to, is the carrier thread's own identity,
\* never the default value and never the identity of another thread.
C1_TimerBoundToCarrier ==
  /\ TimerNewEntered =>
       /\ cpc \notin {"unspawned", "send"}
       /\ chan = << >>
       /\ thread_id = tid[CarrierT]
       /\ thread_id # NoTid
       /\ \A t \in Threads \ {CarrierT} : tid[t] # thread_id
  /\ osTimer.state # "none" =>
       /\ osTimer.target = tid[CarrierT]
       /\ osTimer.target # NoTid
       /\ \A t \in Threads \ {CarrierT} : tid[t] # osTimer.target

C1_Witness ==
  /\ osTimer.state = "armed"
  /\ osTimer.target = tid[CarrierT]
  /\ threads > 0

\* C2: the TimerId of a construction attempt is dropped exactly once, and once
\* it has been dropped the number of timer_delete calls equals the number of
\* successful timer_create calls; when Timer::new returns Err the timer it
\* created has already been deleted; no attempt is left undropped when main
\* has ended.
C2_NoTimerLeak ==
  /\ drops <= 1
  /\ deletes <= creates
  /\ drops = 1 => deletes = creates
  /\ errReturned => drops = 1 /\ deletes = creates /\ osTimer.state \in {"none", "deleted"}
  /\ (pcMain = "done" /\ TimerNewAttempted) => drops = 1

C2_Witness ==
  /\ errReturned
  /\ creates = 1
  /\ deletes = 1
  /\ pcMain = "panic"

C4_AbortOnFailure ==
  [][ AnyPanicked =>
        /\ dummy' = dummy
        /\ ~ (pcMain = "sleep" /\ pcMain' = "store") ]_vars

\* C5: with a strictly positive interval, once the sleep has elapsed the
\* process terminates; when no thread failed, every spin worker and the
\* carrier thread have returned and the exit status is success; the carrier
\* thread consumes at most one notification after the flag was set.
C5_Terminates ==
  /\ (slept /\ interval > 0) ~>
       ( /\ pcMain = "done"
         /\ ~ AnyPanicked =>
              /\ exitCode = ExitOk
              /\ cpc = "returned"
              /\ \A w \in 1..num_threads : wpc[w] = "returned" )
  /\ [](wakesAfterQuit <= 1)

C5_Witness ==
  /\ exitCode = ExitOk
  /\ interval > 0
  /\ wakesAfterQuit = 1
  /\ threads > 0

\* C6: quit starts false, is stored at most once, by the orchestrator only,
\* from false to true, and never goes back to false.
C6_QuitWrittenOnce ==
  /\ [] ( /\ Len(quitWrites) <= 1
          /\ \A i \in 1..Len(quitWrites) : quitWrites[i] = << MainT, FALSE, TRUE >>
          /\ quit = (quitWrites # << >>) )
  /\ [][quit => quit']_vars

C6_Witness ==
  /\ quit
  /\ Len(quitWrites) = 1
  /\ cpc = "returned"
  /\ \E w \in Workers : wpc[w] = "returned"

\* C7: no join is started before quit is set, quit is set only after the
\* sleep has returned, the carrier thread is the first thread joined, and the
\* join of a spin worker is started only after the join of the carrier thread
\* has returned.
C7_ShutdownOrder ==
  /\ (pcMain \in {"join_carrier", "join_workers"} \/ joined # {}) => quit
  /\ quit => slept
  /\ joined # {} => CarrierT \in joined
  /\ pcMain = "join_workers" => CarrierT \in joined

C7_Witness ==
  /\ joined \cap Workers # {}
  /\ CarrierT \in joined
  /\ quit

\* C8: when main has ended, the exit status is success exactly when the
\* carrier thread and every spin worker returned normally and were joined
\* without an error; a thread that terminated abnormally makes the run fail.
C8_ExitStatus ==
  pcMain = "done" =>
    /\ exitCode = ExitOk <=>
         /\ cpc = "returned" /\ CarrierT \in joined \ joinErr
         /\ \A w \in 1..num_threads : wpc[w] = "returned" /\ w \in joined \ joinErr
    /\ AnyPanicked => exitCode # ExitOk

C8_Witness ==
  /\ pcMain = "done"
  /\ exitCode = ExitPanic
  /\ cpc = "returned"
  /\ \E w \in Workers : wpc[w] = "panicked" /\ w \in joinErr

\* C9 (as stated): in every run that reaches shutdown, every spin worker has
\* been joined when the process exits, also when an earlier join reported an
\* error.
C9_AllWorkersJoinedAtExit ==
  (pcMain = "done" /\ quit) => AllWorkersJoined

\* C9 (amended): in a run that reaches shutdown, every spin worker has been
\* joined when the process exits with success; a worker is left unjoined only
\* when the join of the carrier thread or of an earlier worker reported an
\* error, and the process then exits with failure.
C9_WorkersJoinedUnlessJoinFailed ==
  (pcMain = "done" /\ quit) =>
    /\ exitCode = ExitOk => AllWorkersJoined
    /\ \A w \in 1..num_threads :
         w \notin joined =>
           /\ exitCode = ExitPanic
           /\ \E e \in joinErr : e = CarrierT \/ e < w

C9_Witness ==
  /\ pcMain = "done"
  /\ exitCode = ExitOk
  /\ num_threads >= 2
  /\ AllWorkersJoined

\* C10: a timer expiry interrupts the carrier thread only, and only the
\* carrier thread consumes a notification; the threads the timer can notify
\* never include a spin worker or the main thread.
C10_ThreadDirected ==
  /\ delivered \subseteq {CarrierT}
  /\ consumers \subseteq {CarrierT}
  /\ osTimer.state # "none" => NotifyTargets(osTimer.target) \subseteq {CarrierT}

C10_Witness ==
  /\ CarrierT \in delivered
  /\ CarrierT \in consumers
  /\ \E w \in Workers : Live(w)

\* C11: the number of spin workers spawned is exactly
\* (core_num - 1) * threads_per_core (9 for 4 cores and 3 threads per core, 0
\* for one core), and besides them exactly one carrier thread is spawned.
C11_WorkerCount ==
  /\ threads <= (core_num - 1) * threads_per_core
  /\ Cardinality({ w \in Workers : wpc[w] # "unspawned" }) = threads
  /\ pcMain # "spawn_workers" => threads = (core_num - 1) * threads_per_core
  /\ (pcMain # "spawn_workers" /\ core_num = 1) => threads = 0
  /\ pcMain = "recv" =>
       /\ cpc # "unspawned"
       /\ Cardinality({ t \in Threads : tid[t] # NoTid }) =
            (core_num - 1) * threads_per_core + 2

C11_Witness ==
  /\ core_num = 4
  /\ threads_per_core = 3
  /\ threads = 9
  /\ pcMain = "recv"

C13_AbortBeforeWorkersRun ==
  errReturned =>
    /\ errCode \in OsErrors
    /\ ~ slept /\ ~ quit
    /\ pcMain \in {"panic", "done"}
    /\ \A w \in Workers : wpc[w] \in {"unspawned", "affinity"}

\* C13 (amended): when timer_create or timer_settime fails, Timer::new returns
\* an Err that carries the errno and the run is aborted with a failure: main
\* never sleeps, never sets quit and joins nothing; the spin workers were all
\* spawned before and may already be running.
C13_AbortWithoutShutdown ==
  /\ errReturned =>
       /\ errCode \in OsErrors
       /\ ~ slept /\ ~ quit /\ quitWrites = << >>
       /\ timer = "None"
       /\ joined = {}
       /\ pcMain \in {"panic", "done"}
       /\ pcMain = "done" => exitCode = ExitPanic
       /\ threads = (core_num - 1) * threads_per_core
  /\ ~ errReturned => errCode = NoError

C13_Witness ==
  /\ errReturned
  /\ exitCode = ExitPanic
  /\ \E w \in Workers : dummy[w] > 0

\* C14: the carrier thread publishes its identity only after it has bound
\* itself to the reserved core and raised its priority, so that the timer is
\* never created or armed and no notification is delivered while the carrier
\* thread is not pinned.
C14_PinnedBeforePublished ==
  /\ (chan # << >> \/ thread_id # NoTid) => CarrierT \in pinned /\ fifo
  /\ osTimer.state \in {"created", "armed"} => CarrierT \in pinned
  /\ delivered # {} => CarrierT \in pinned

\* C15: the carrier thread loads quit only after it has been woken by a
\* delivered notification, once per wake; from the load it returns exactly
\* when quit is true and goes back to waiting otherwise, so it has never
\* returned while quit is false.
C15_CheckOncePerWake ==
  /\ [] ( /\ cpc = "load" => CarrierT \in consumers /\ CarrierT \in delivered
          /\ cpc = "returned" => quit /\ CarrierT \in delivered )
  /\ [][ (cpc' = "load" /\ cpc # "load") =>
           (cpc = "wait" /\ pending /\ ~ pending') ]_vars
  /\ [][ (cpc = "load" /\ cpc' # "load") =>
           cpc' = IF quit THEN "returned" ELSE "wait" ]_vars

C15_Witness ==
  /\ cpc = "wait"
  /\ CarrierT \in consumers
  /\ ~ quit

\* C16: the SIGALRM interception is installed before the carrier is spawned
\* and the timer is created, and it stays installed; whenever the timer
\* exists the interception is in place, and no expiry ever ends the process
\* through the default action.
C16_InterceptionInstalled ==
  /\ [] ( /\ osTimer.state \in {"created", "armed"} => sigInstalled
          /\ cpc # "unspawned" => sigInstalled
          /\ exitCode # ExitKilled )
  /\ [][sigInstalled => sigInstalled']_vars

C16_Witness ==
  /\ osTimer.state = "armed"
  /\ sigInstalled
  /\ CarrierT \in delivered
  /\ cpc = "returned"

\* C17: a spin worker is in its loop, or has incremented its counter, only
\* after its affinity binding succeeded; the carrier thread is in its
\* notification loop only after its binding and its priority elevation
\* succeeded; a thread whose binding failed has panicked without entering its
\* loop, and its join reports an error.
C17_NoUnpinnedWork ==
  /\ \A w \in Workers :
       /\ (dummy[w] > 0 \/ wpc[w] \in {"check", "incr", "returned"}) => w \in pinned
       /\ wpc[w] = "panicked" =>
            /\ w \notin pinned
            /\ dummy[w] = 0
            /\ w \in joined => w \in joinErr
       /\ (wpc[w] \in {"unspawned", "affinity"}) => w \notin pinned
  /\ (cpc \in {"wait", "load", "returned"} \/ CarrierT \in consumers) =>
       CarrierT \in pinned /\ fifo
  /\ cpc = "panicked" =>
       /\ CarrierT \notin pinned \/ ~ fifo
       /\ CarrierT \notin consumers
       /\ CarrierT \in joined => CarrierT \in joinErr

C17_Witness ==
  \E w1, w2 \in Workers :
    /\ wpc[w1] = "panicked"
    /\ w1 \in joinErr
    /\ w2 \in pinned
    /\ dummy[w2] > 0

\* C18 (as stated): every spin worker that has returned performed at least one
\* increment before it observed quit as true.
C18_IncrementBeforeExit ==
  \A w \in Workers : wpc[w] = "returned" => dummy[w] >= 1

\* C18 (amended): a spin worker returns only on loading quit as true, and every
\* load that sees false is followed by an increment before the next load; so a
\* worker that ever saw quit false has incremented at least once when it
\* returns, while a worker whose first load already sees true returns without
\* an increment.
C18_IncrementAfterFalseLoad ==
  /\ [] (\A w \in Workers : wpc[w] = "returned" => quit /\ slept)
  /\ [][ \A w \in Workers :
           (wpc[w] # "incr" /\ wpc'[w] = "incr") => (wpc[w] = "check" /\ ~ quit) ]_vars
  /\ [][ \A w \in Workers :
           (wpc[w] = "incr" /\ wpc'[w] # "incr") =>
             (wpc'[w] = "check" /\ dummy'[w] >= 1) ]_vars
  /\ [][ \A w \in Workers :
           (wpc[w] # "returned" /\ wpc'[w] = "returned") =>
             (wpc[w] = "check" /\ quit) ]_vars

C18_Witness ==
  \E w \in Workers :
    /\ wpc[w] = "returned"
    /\ dummy[w] >= 1
    /\ hasDuration

C20_HandoffCompletes ==
  /\ (pcMain = "recv") ~>
       (pcMain # "recv" /\ thread_id = tid[CarrierT] /\ thread_id # NoTid)
  /\ [] ( /\ Len(chan) <= 1
          /\ ~ (chan # << >> /\ thread_id # NoTid)
          /\ cpc \notin {"unspawned", "send"} =>
               (chan = << tid[CarrierT] >> \/ thread_id = tid[CarrierT])
          /\ cpc \in {"unspawned", "send"} => (chan = << >> /\ thread_id = NoTid) )

C20_Witness ==
  /\ cpc = "panicked"
  /\ pcMain = "timer_create"
  /\ thread_id = tid[CarrierT]

====
